---- MODULE Spec2Model ----
(***************************************************************************)
(* Model of the KnowledgeGraph component of code-to-knowledge-explorer:    *)
(* the transformation of a parsed entity model (functions, classes with    *)
(* methods and bases, relationship records) into the nodes and edges that  *)
(* are handed to the rendering engine, and the component state (search     *)
(* term, visibility flags, layout, selection, engine instance) around it;  *)
(* and of the Home page that renders the component with the result of a    *)
(* parse, with the two functions of the API client it calls.               *)
(*                                                                         *)
(* Strings are TLA+ strings; ids are built by concatenation exactly as the *)
(* template literals of the source build them.  Array indices of the       *)
(* source are 0-based: the element with index i is at position i + 1 of    *)
(* the modelling sequence.                                                 *)
(***************************************************************************)
EXTENDS Integers, Sequences, FiniteSets, TLC

\* null / undefined of a string-valued field
Null == "<null>"

(***************************************************************************)
(* Bounds of the model.                                                    *)
(***************************************************************************)
MaxFunctions == 2

MaxClasses == 2

MaxBases == 2

MaxMethods == 2

MaxFunctionCalls == 1

MaxMethodCalls == 1

\* total number of entities and records in one entity model
MaxWeight == 4

\* the same, in the whole-component specification
MaxComponentWeight == 2

\* The names entities, bases, callers, callees, objects and methods carry.
Names == {"Unknown", "b"}

\* The values typed into the search box.
SearchTerms == {"", "Un"}

Layouts == {"cose", "dagre", "klay"}

(***************************************************************************)
(* The component: its props, its state and the engine instance in cyRef.   *)
(***************************************************************************)
VARIABLES functions, classes, relationships,
          selectedNode, layout, searchTerm,
          showFunctions, showClasses, showMethods, showRelationships,
          cyRef,
          liveInstances,  \* engine instances constructed and not destroyed
          calls,          \* what the effects of the last commit called, in order
          home            \* the state of the Home page that renders the component

vars == <<functions, classes, relationships, selectedNode, layout, searchTerm,
          showFunctions, showClasses, showMethods, showRelationships, cyRef,
          liveInstances, calls, home>>

props == <<functions, classes, relationships>>

\* useRef(null), useState(null)
NoInstance == [none |-> TRUE]

\* the value of home when the component is rendered by a parent other than
\* the Home page
NotHome == [parent |-> "other"]

NoSelection == [none |-> TRUE]

(***************************************************************************)
(* String helpers: String.prototype.toLowerCase and                        *)
(* String.prototype.includes, character by character.                      *)
(***************************************************************************)
UpperCaseLetters == "ABCDEFGHIJKLMNOPQRSTUVWXYZ"

LowerCaseLetters == "abcdefghijklmnopqrstuvwxyz"

\* upper-case letter |-> lower-case letter
LowerTable ==
  [c \in {SubSeq(UpperCaseLetters, k, k) : k \in 1..26} |->
     LET k == CHOOSE j \in 1..26 : SubSeq(UpperCaseLetters, j, j) = c
     IN  SubSeq(LowerCaseLetters, k, k)]

LowerChar(c) == IF c \in DOMAIN LowerTable THEN LowerTable[c] ELSE c

RECURSIVE toLowerCase(_)
toLowerCase(s) ==
  IF Len(s) = 0 THEN ""
  ELSE LowerChar(SubSeq(s, 1, 1)) \o toLowerCase(SubSeq(s, 2, Len(s)))

includes(s, sub) ==
  \E k \in 0..(Len(s) - Len(sub)) : SubSeq(s, k + 1, k + Len(sub)) = sub

\* !searchTerm || name.toLowerCase().includes(searchTerm.toLowerCase())
MatchesSearch(searchTerm_, name) ==
  \/ searchTerm_ = ""
  \/ includes(toLowerCase(name), toLowerCase(searchTerm_))

(***************************************************************************)
(* The name registry: Map<string, string>.                                 *)
(***************************************************************************)
EmptyMap == [k \in {} |-> Null]

MapHas(m, k) == k \in DOMAIN m

MapGet(m, k) == IF k \in DOMAIN m THEN m[k] ELSE Null

\* a registry in which the first registration of a name stays
MapSetIfAbsent(m, k, v) ==
  IF k \in DOMAIN m THEN m ELSE [x \in (DOMAIN m) \cup {k} |-> IF x = k THEN v ELSE m[x]]

MapSet(m, k, v) == [x \in (DOMAIN m) \cup {k} |-> IF x = k THEN v ELSE m[x]]

\* nodes.find(pred) returns the element at the least index at which pred holds
FirstIndex(S) == CHOOSE k \in S : \A j \in S : k <= j

\* nodes.find((n) => n.data.id === id) is not undefined
HasNodeWithId(nodes, id) == \E k \in 1..Len(nodes) : nodes[k].id = id

(***************************************************************************)
(* transformDataToGraph.  env is the closure the callback reads: the props *)
(* functions, classes, relationships and the state searchTerm,             *)
(* showFunctions, showClasses, showMethods, showRelationships.  b is the   *)
(* build in progress: nodes, edges, nodeMap.                               *)
(***************************************************************************)
\* a build whose registry still holds the names of the previous graph
NewBuildStaleRegistry ==
  LET old == IF cyRef = NoInstance THEN <<>>
             ELSE SelectSeq(cyRef.nodes, LAMBDA n : n.type # "method")
      RegistryOf[k \in 0..Len(old)] ==
        IF k = 0 THEN EmptyMap
        ELSE MapSet(RegistryOf[k - 1], old[k].label, old[k].id)
  IN  [nodes |-> <<>>, edges |-> <<>>, nodeMap |-> RegistryOf[Len(old)]]

NewBuild == [nodes |-> <<>>, edges |-> <<>>, nodeMap |-> EmptyMap]

\* FunctionCallback numbering the node by its position among the visible nodes
FunctionCallbackFilteredIndex(env, b, index) ==
  LET func == env.functions[index + 1]
      nodeId == "func-" \o ToString(Len(b.nodes))
  IN  IF MatchesSearch(env.searchTerm, func.name)
      THEN [b EXCEPT
              !.nodes = Append(@, [id |-> nodeId, label |-> func.name,
                                   type |-> "function", nodeData |-> func]),
              !.nodeMap = MapSet(@, func.name, nodeId)]
      ELSE b

\* functions.forEach((func, index) => ...)
FunctionCallback(env, b, index) ==
  LET func == env.functions[index + 1]
      nodeId == "func-" \o ToString(index)
  IN  IF MatchesSearch(env.searchTerm, func.name)
      THEN [b EXCEPT
              !.nodes = Append(@, [id |-> nodeId, label |-> func.name,
                                   type |-> "function", nodeData |-> func]),
              !.nodeMap = MapSet(@, func.name, nodeId)]
      ELSE b

RECURSIVE FunctionsForEach(_, _, _)
FunctionsForEach(env, b, index) ==
  IF index >= Len(env.functions) THEN b
  ELSE FunctionsForEach(env, FunctionCallback(env, b, index), index + 1)

\* AddFunctionNodes without the test of showFunctions
AddFunctionNodesAlways(env, b) == FunctionsForEach(env, b, 0)

AddFunctionNodes(env, b) ==
  IF env.showFunctions THEN FunctionsForEach(env, b, 0) ELSE b

\* MethodCallback without the search filter
MethodCallbackNoSearch(env, b, classIndex, methodIndex) ==
  LET cls == env.classes[classIndex + 1]
      method == cls.methods[methodIndex + 1]
      classId == "class-" \o ToString(classIndex)
      methodId == "method-" \o ToString(classIndex) \o "-" \o ToString(methodIndex)
  IN  [b EXCEPT
         !.nodes = Append(@, [id |-> methodId, label |-> method.name,
                              type |-> "method", nodeData |-> method]),
         !.edges = Append(@, [id |-> "edge-" \o classId \o "-" \o methodId,
                              source |-> classId, target |-> methodId,
                              type |-> "contains"])]

\* cls.methods.forEach((method, methodIndex) => ...)
MethodCallback(env, b, classIndex, methodIndex) ==
  LET cls == env.classes[classIndex + 1]
      method == cls.methods[methodIndex + 1]
      classId == "class-" \o ToString(classIndex)
      methodId == "method-" \o ToString(classIndex) \o "-" \o ToString(methodIndex)
  IN  IF MatchesSearch(env.searchTerm, method.name)
      THEN [b EXCEPT
              !.nodes = Append(@, [id |-> methodId, label |-> method.name,
                                   type |-> "method", nodeData |-> method]),
              !.edges = Append(@, [id |-> "edge-" \o classId \o "-" \o methodId,
                                   source |-> classId, target |-> methodId,
                                   type |-> "contains"])]
      ELSE b

RECURSIVE MethodsForEach(_, _, _, _)
MethodsForEach(env, b, classIndex, methodIndex) ==
  IF methodIndex >= Len(env.classes[classIndex + 1].methods) THEN b
  ELSE MethodsForEach(env, MethodCallback(env, b, classIndex, methodIndex),
                      classIndex, methodIndex + 1)

\* BaseCallback that adds the base node whenever the registry lacks the name,
\* without looking for a node with that id
BaseCallbackNoFind(env, b, classIndex, baseIndex) ==
  LET cls == env.classes[classIndex + 1]
      base == cls.bases[baseIndex + 1]
      classId == "class-" \o ToString(classIndex)
      baseId == "base-" \o base
      withStub ==
        [b EXCEPT
           !.nodes = Append(@, [id |-> baseId, label |-> base,
                                type |-> "class",
                                nodeData |-> [name |-> base, bases |-> <<>>,
                                              docstring |-> Null,
                                              methods |-> <<>>]])]
  IN  [withStub EXCEPT
         !.edges = Append(@, [id |-> "inherit-" \o classId \o "-" \o baseId
                                       \o "-" \o ToString(baseIndex),
                              source |-> classId, target |-> baseId,
                              type |-> "inherits"])]

\* a callback that resolves an unregistered base to the stub id and pushes
\* no stub node
BaseCallbackNoStub(env, b, classIndex, baseIndex) ==
  LET cls == env.classes[classIndex + 1]
      base == cls.bases[baseIndex + 1]
      classId == "class-" \o ToString(classIndex)
      baseId == IF MapHas(b.nodeMap, base) THEN MapGet(b.nodeMap, base)
                ELSE "base-" \o base
  IN  [b EXCEPT
         !.edges = Append(@, [id |-> "inherit-" \o classId \o "-" \o baseId
                                       \o "-" \o ToString(baseIndex),
                              source |-> classId, target |-> baseId,
                              type |-> "inherits"])]

\* a callback that emits one inherits edge per distinct base of the class
BaseCallbackOncePerBase(env, b, classIndex, baseIndex) ==
  LET cls == env.classes[classIndex + 1]
      base == cls.bases[baseIndex + 1]
      classId == "class-" \o ToString(classIndex)
      baseId == IF MapHas(b.nodeMap, base) THEN MapGet(b.nodeMap, base)
                ELSE "base-" \o base
      withStub ==
        IF ~HasNodeWithId(b.nodes, baseId)
        THEN [b EXCEPT
                !.nodes = Append(@, [id |-> baseId, label |-> base,
                                     type |-> "class",
                                     nodeData |-> [name |-> base, bases |-> <<>>,
                                                   docstring |-> Null,
                                                   methods |-> <<>>]]),
                !.nodeMap = MapSet(@, base, baseId)]
        ELSE b
  IN  IF \E k \in 1..Len(b.edges) :
           /\ b.edges[k].type = "inherits"
           /\ b.edges[k].source = classId
           /\ b.edges[k].target = baseId
      THEN withStub
      ELSE [withStub EXCEPT
              !.edges = Append(@, [id |-> "inherit-" \o classId \o "-" \o baseId
                                            \o "-" \o ToString(baseIndex),
                                   source |-> classId, target |-> baseId,
                                   type |-> "inherits"])]

\* cls.bases.forEach((base, baseIndex) => ...)
BaseCallback(env, b, classIndex, baseIndex) ==
  LET cls == env.classes[classIndex + 1]
      base == cls.bases[baseIndex + 1]
      classId == "class-" \o ToString(classIndex)
      baseId == IF MapHas(b.nodeMap, base) THEN MapGet(b.nodeMap, base)
                ELSE "base-" \o base
      withStub ==
        IF ~HasNodeWithId(b.nodes, baseId)
        THEN [b EXCEPT
                !.nodes = Append(@, [id |-> baseId, label |-> base,
                                     type |-> "class",
                                     nodeData |-> [name |-> base, bases |-> <<>>,
                                                   docstring |-> Null,
                                                   methods |-> <<>>]]),
                !.nodeMap = MapSet(@, base, baseId)]
        ELSE b
  IN  [withStub EXCEPT
         !.edges = Append(@, [id |-> "inherit-" \o classId \o "-" \o baseId
                                       \o "-" \o ToString(baseIndex),
                              source |-> classId, target |-> baseId,
                              type |-> "inherits"])]

RECURSIVE BasesForEach(_, _, _, _)
BasesForEach(env, b, classIndex, baseIndex) ==
  IF baseIndex >= Len(env.classes[classIndex + 1].bases) THEN b
  ELSE BasesForEach(env, BaseCallback(env, b, classIndex, baseIndex),
                    classIndex, baseIndex + 1)

\* ClassCallback without the search filter on the class name
ClassCallbackNoSearch(env, b, classIndex) ==
  LET cls == env.classes[classIndex + 1]
      classId == "class-" \o ToString(classIndex)
      withClass ==
        [b EXCEPT
           !.nodes = Append(@, [id |-> classId, label |-> cls.name,
                                type |-> "class", nodeData |-> cls]),
           !.nodeMap = MapSet(@, cls.name, classId)]
      withMethods ==
        IF env.showMethods THEN MethodsForEach(env, withClass, classIndex, 0)
        ELSE withClass
  IN  IF Len(cls.bases) > 0
      THEN BasesForEach(env, withMethods, classIndex, 0)
      ELSE withMethods

\* ClassCallback that adds the methods of a class outside the search filter
\* on the class name
ClassCallbackMethodsOutside(env, b, classIndex) ==
  LET cls == env.classes[classIndex + 1]
      classId == "class-" \o ToString(classIndex)
      withClass ==
        IF MatchesSearch(env.searchTerm, cls.name)
        THEN [b EXCEPT
                !.nodes = Append(@, [id |-> classId, label |-> cls.name,
                                     type |-> "class", nodeData |-> cls]),
                !.nodeMap = MapSet(@, cls.name, classId)]
        ELSE b
      withMethods ==
        IF env.showMethods THEN MethodsForEach(env, withClass, classIndex, 0)
        ELSE withClass
  IN  IF MatchesSearch(env.searchTerm, cls.name) /\ Len(cls.bases) > 0
      THEN BasesForEach(env, withMethods, classIndex, 0)
      ELSE withMethods

\* ClassCallback that adds inheritance only when showRelationships is set
ClassCallbackBasesIfRelationships(env, b, classIndex) ==
  LET cls == env.classes[classIndex + 1]
      classId == "class-" \o ToString(classIndex)
      withClass ==
        [b EXCEPT
           !.nodes = Append(@, [id |-> classId, label |-> cls.name,
                                type |-> "class", nodeData |-> cls]),
           !.nodeMap = MapSet(@, cls.name, classId)]
      withMethods ==
        IF env.showMethods THEN MethodsForEach(env, withClass, classIndex, 0)
        ELSE withClass
  IN  IF MatchesSearch(env.searchTerm, cls.name)
      THEN IF env.showRelationships /\ Len(cls.bases) > 0
           THEN BasesForEach(env, withMethods, classIndex, 0)
           ELSE withMethods
      ELSE b

\* ClassCallback that adds inheritance inside the test of showMethods
ClassCallbackBasesIfMethods(env, b, classIndex) ==
  LET cls == env.classes[classIndex + 1]
      classId == "class-" \o ToString(classIndex)
      withClass ==
        [b EXCEPT
           !.nodes = Append(@, [id |-> classId, label |-> cls.name,
                                type |-> "class", nodeData |-> cls]),
           !.nodeMap = MapSet(@, cls.name, classId)]
  IN  IF MatchesSearch(env.searchTerm, cls.name)
      THEN IF env.showMethods
           THEN IF Len(cls.bases) > 0
                THEN BasesForEach(env, MethodsForEach(env, withClass, classIndex, 0),
                                  classIndex, 0)
                ELSE MethodsForEach(env, withClass, classIndex, 0)
           ELSE withClass
      ELSE b

\* classes.forEach((cls, classIndex) => ...)
ClassCallback(env, b, classIndex) ==
  LET cls == env.classes[classIndex + 1]
      classId == "class-" \o ToString(classIndex)
      withClass ==
        [b EXCEPT
           !.nodes = Append(@, [id |-> classId, label |-> cls.name,
                                type |-> "class", nodeData |-> cls]),
           !.nodeMap = MapSet(@, cls.name, classId)]
      withMethods ==
        IF env.showMethods THEN MethodsForEach(env, withClass, classIndex, 0)
        ELSE withClass
  IN  IF MatchesSearch(env.searchTerm, cls.name)
      THEN IF Len(cls.bases) > 0
           THEN BasesForEach(env, withMethods, classIndex, 0)
           ELSE withMethods
      ELSE b

RECURSIVE ClassesForEach(_, _, _)
ClassesForEach(env, b, classIndex) ==
  IF classIndex >= Len(env.classes) THEN b
  ELSE ClassesForEach(env, ClassCallback(env, b, classIndex), classIndex + 1)

AddClassNodes(env, b) ==
  IF env.showClasses THEN ClassesForEach(env, b, 0) ELSE b

\* FunctionCallCallback without the test callerId !== calleeId
FunctionCallCallbackSelfLoop(env, b, index) ==
  LET call == env.relationships.function_calls[index + 1]
      callerId == IF call.caller # Null /\ MapHas(b.nodeMap, call.caller)
                  THEN MapGet(b.nodeMap, call.caller)
                  ELSE Null
      calleeId == MapGet(b.nodeMap, call.callee)
  IN  IF call.callee # Null /\ MapHas(b.nodeMap, call.callee)
      THEN IF callerId # Null /\ calleeId # Null
           THEN [b EXCEPT
                   !.edges = Append(@, [id |-> "call-" \o ToString(index),
                                        source |-> callerId,
                                        target |-> calleeId,
                                        type |-> "calls"])]
           ELSE b
      ELSE b

\* FunctionCallCallback that does not test the caller: a record without a
\* resolvable caller yields an edge without a source
FunctionCallCallbackNoCallerTest(env, b, index) ==
  LET call == env.relationships.function_calls[index + 1]
      callerId == IF call.caller # Null /\ MapHas(b.nodeMap, call.caller)
                  THEN MapGet(b.nodeMap, call.caller)
                  ELSE Null
      calleeId == MapGet(b.nodeMap, call.callee)
  IN  IF call.callee # Null /\ MapHas(b.nodeMap, call.callee)
      THEN IF calleeId # Null /\ callerId # calleeId
           THEN [b EXCEPT
                   !.edges = Append(@, [id |-> "call-" \o ToString(index),
                                        source |-> callerId,
                                        target |-> calleeId,
                                        type |-> "calls"])]
           ELSE b
      ELSE b

\* relationships.function_calls.forEach((call, index) => ...)
FunctionCallCallback(env, b, index) ==
  LET call == env.relationships.function_calls[index + 1]
      callerId == IF call.caller # Null /\ MapHas(b.nodeMap, call.caller)
                  THEN MapGet(b.nodeMap, call.caller)
                  ELSE Null
      calleeId == MapGet(b.nodeMap, call.callee)
  IN  IF call.callee # Null /\ MapHas(b.nodeMap, call.callee)
      THEN IF callerId # Null /\ calleeId # Null /\ callerId # calleeId
           THEN [b EXCEPT
                   !.edges = Append(@, [id |-> "call-" \o ToString(index),
                                        source |-> callerId,
                                        target |-> calleeId,
                                        type |-> "calls"])]
           ELSE b
      ELSE b

RECURSIVE FunctionCallsForEach(_, _, _)
FunctionCallsForEach(env, b, index) ==
  IF index >= Len(env.relationships.function_calls) THEN b
  ELSE FunctionCallsForEach(env, FunctionCallCallback(env, b, index), index + 1)

\* MethodCallCallback that takes the last method node of the name
MethodCallCallbackLast(env, b, index) ==
  LET call == env.relationships.method_calls[index + 1]
      objectId == MapGet(b.nodeMap, call.object)
      S == {k \in 1..Len(b.nodes) :
              /\ b.nodes[k].type = "method"
              /\ b.nodes[k].nodeData.name = call.method
              /\ includes(b.nodes[k].id, "method-")}
      methodNode == b.nodes[CHOOSE k \in S : \A j \in S : j <= k]
  IN  IF call.object # Null /\ call.method # Null /\ MapHas(b.nodeMap, call.object)
      THEN IF objectId # Null /\ S # {}
           THEN [b EXCEPT
                   !.edges = Append(@, [id |-> "method-call-" \o ToString(index),
                                        source |-> objectId,
                                        target |-> methodNode.id,
                                        type |-> "calls"])]
           ELSE b
      ELSE b

\* relationships.method_calls.forEach((call, index) => ...)
MethodCallCallback(env, b, index) ==
  LET call == env.relationships.method_calls[index + 1]
      objectId == MapGet(b.nodeMap, call.object)
      S == {k \in 1..Len(b.nodes) :
              /\ b.nodes[k].type = "method"
              /\ b.nodes[k].nodeData.name = call.method
              /\ includes(b.nodes[k].id, "method-")}
      methodNode == b.nodes[FirstIndex(S)]
  IN  IF call.object # Null /\ call.method # Null /\ MapHas(b.nodeMap, call.object)
      THEN IF objectId # Null /\ S # {}
           THEN [b EXCEPT
                   !.edges = Append(@, [id |-> "method-call-" \o ToString(index),
                                        source |-> objectId,
                                        target |-> methodNode.id,
                                        type |-> "calls"])]
           ELSE b
      ELSE b

RECURSIVE MethodCallsForEach(_, _, _)
MethodCallsForEach(env, b, index) ==
  IF index >= Len(env.relationships.method_calls) THEN b
  ELSE MethodCallsForEach(env, MethodCallCallback(env, b, index), index + 1)

\* AddRelationshipEdges that also turns the records of class_inheritance
\* into inherits edges
AddRelationshipEdgesWithInheritance(env, b) ==
  LET InheritanceEdges[k \in 0..Len(env.relationships.class_inheritance)] ==
        IF k = 0 THEN <<>>
        ELSE LET r == env.relationships.class_inheritance[k]
             IN  IF MapHas(b.nodeMap, r.caller) /\ MapHas(b.nodeMap, r.callee)
                 THEN Append(InheritanceEdges[k - 1],
                             [id |-> "inheritance-" \o ToString(k - 1),
                              source |-> MapGet(b.nodeMap, r.caller),
                              target |-> MapGet(b.nodeMap, r.callee),
                              type |-> "inherits"])
                 ELSE InheritanceEdges[k - 1]
      withCalls == MethodCallsForEach(env, FunctionCallsForEach(env, b, 0), 0)
  IN  IF env.showRelationships
      THEN [withCalls EXCEPT
              !.edges = @ \o InheritanceEdges[Len(env.relationships.class_inheritance)]]
      ELSE b

AddRelationshipEdges(env, b) ==
  IF env.showRelationships
  THEN MethodCallsForEach(env, FunctionCallsForEach(env, b, 0), 0)
  ELSE b

transformDataToGraph(env) ==
  LET b == AddRelationshipEdges(env,
             AddClassNodes(env, AddFunctionNodes(env, NewBuild)))
  IN  [nodes |-> b.nodes, edges |-> b.edges]

(***************************************************************************)
(* The entity models the component is mounted with.                        *)
(***************************************************************************)
SeqsUpTo(S, n) == UNION {[1..k -> S] : k \in 0..n}

Min(a, b) == IF a <= b THEN a ELSE b

FunctionEntities == [name : Names]

\* the classes of weight (the class, its bases and its methods) at most w
ClassEntities(w) ==
  {c \in [name : Names,
          bases : SeqsUpTo(Names, Min(MaxBases, w - 1)),
          methods : SeqsUpTo(FunctionEntities, Min(MaxMethods, w - 1))] :
     1 + Len(c.bases) + Len(c.methods) <= w}

\* the sequences of at most n classes of total weight at most w
RECURSIVE ClassSeqs(_, _)
ClassSeqs(n, w) ==
  IF n = 0 \/ w = 0 THEN {<<>>}
  ELSE {<<>>} \cup
       UNION {{<<c>> \o rest :
                 rest \in ClassSeqs(n - 1, w - (1 + Len(c.bases) + Len(c.methods)))} :
              c \in ClassEntities(w)}

RECURSIVE ClassesWeight(_)
ClassesWeight(cs) ==
  IF cs = <<>> THEN 0
  ELSE 1 + Len(Head(cs).bases) + Len(Head(cs).methods) + ClassesWeight(Tail(cs))

FunctionCallRecords == [caller : Names \cup {Null}, callee : Names]

MethodCallRecords == [object : Names, method : Names]

\* the default value of the relationships prop
DefaultRelationships ==
  [function_calls |-> <<>>, class_inheritance |-> <<>>,
   method_calls |-> <<>>, attribute_access |-> <<>>]

\* the relationships prop was not passed
Omitted == [omitted |-> TRUE]

\* the relationships props of weight (number of records) at most w
RelationshipProps(w, withOmitted) ==
  (IF withOmitted THEN {Omitted} ELSE {}) \cup
  {r \in [function_calls : SeqsUpTo(FunctionCallRecords, Min(MaxFunctionCalls, w)),
          class_inheritance : {<<>>},
          method_calls : SeqsUpTo(MethodCallRecords, Min(MaxMethodCalls, w)),
          attribute_access : {<<>>}] :
     Len(r.function_calls) + Len(r.method_calls) <= w}

\* the props of total weight at most maxWeight
EntityModels(maxWeight, withOmitted) ==
  UNION {
    UNION {
      {[functions |-> fs, classes |-> cs, relationships |-> r] :
         r \in RelationshipProps(maxWeight - ClassesWeight(cs) - Len(fs),
                                 withOmitted)} :
      fs \in SeqsUpTo(FunctionEntities,
                      Min(MaxFunctions, maxWeight - ClassesWeight(cs)))} :
    cs \in ClassSeqs(MaxClasses, maxWeight)}

\* the props of total weight at most maxWeight whose classes are taken from
\* classSeqs and whose relationships of weight at most w from R[w]
ModelsOf(maxWeight, classSeqs, R) ==
  UNION {
    UNION {
      {[functions |-> fs, classes |-> cs, relationships |-> r] :
         r \in R[maxWeight - ClassesWeight(cs) - Len(fs)]} :
      fs \in SeqsUpTo(FunctionEntities,
                      Min(MaxFunctions, maxWeight - ClassesWeight(cs)))} :
    cs \in classSeqs}

\* caller?: string | null, callee?: string
AnyFunctionCallRecords == [caller : Names \cup {Null}, callee : Names \cup {Null}]

\* a record of class_inheritance and a record of attribute_access
InheritanceRecord == [caller |-> "b", callee |-> "Unknown"]

AttributeRecord == [object |-> "b", attribute |-> "Unknown"]

\* relationships props that hold function calls, with or without records of
\* class_inheritance and attribute_access
FunctionCallProps(w) ==
  {Omitted} \cup
  {r \in [function_calls : SeqsUpTo(AnyFunctionCallRecords,
                                     Min(MaxFunctionCalls, w)),
          class_inheritance : {<<>>, <<InheritanceRecord>>},
          method_calls : {<<>>},
          attribute_access : {<<>>, <<AttributeRecord>>}] :
     Len(r.function_calls) + Len(r.class_inheritance)
       + Len(r.attribute_access) <= w}

\* relationships props that hold method calls
MethodCallProps(w) ==
  {Omitted} \cup
  [function_calls : {<<>>},
   class_inheritance : {<<>>},
   method_calls : SeqsUpTo(MethodCallRecords, Min(MaxMethodCalls, w)),
   attribute_access : {<<>>}]

\* entity models for the function_calls loop: classes without methods
FunctionCallModels ==
  ModelsOf(MaxWeight,
           {cs \in ClassSeqs(MaxClasses, MaxWeight) :
              \A k \in 1..Len(cs) : cs[k].methods = <<>>},
           [w \in 0..MaxWeight |-> FunctionCallProps(w)])

\* entity models for the method_calls loop
MethodCallModels ==
  ModelsOf(MaxWeight, ClassSeqs(MaxClasses, MaxWeight),
           [w \in 0..MaxWeight |-> MethodCallProps(w)])

\* a default value of the relationships prop that is not empty: a call from
\* the first function to the second
RelationshipsOrDerived ==
  IF relationships = Omitted
  THEN [DefaultRelationships EXCEPT
          !.function_calls =
             IF Len(functions) >= 2
             THEN <<[caller |-> functions[1].name, callee |-> functions[2].name]>>
             ELSE <<>>]
  ELSE relationships

\* relationships = { function_calls: [], ... } when the prop is omitted
RelationshipsOrDefault ==
  IF relationships = Omitted THEN DefaultRelationships ELSE relationships

\* what the transformDataToGraph callback of the current render closes over
Closure ==
  [functions |-> functions, classes |-> classes,
   relationships |-> RelationshipsOrDefault,
   searchTerm |-> searchTerm,
   showFunctions |-> showFunctions, showClasses |-> showClasses,
   showMethods |-> showMethods, showRelationships |-> showRelationships]

\* cytoscape({ elements: [...nodes, ...edges], layout: { name: layout } })
NewInstance(graph, layoutName) ==
  [nodes |-> graph.nodes, edges |-> graph.edges, layout |-> layoutName]

\* the engine as a commit finds it
EngineAtCommit ==
  [cyRef |-> cyRef, liveInstances |-> liveInstances, calls |-> <<>>]

\* a graph-build effect that returns no cleanup
CleanupNothing(e) == e

\* the cleanup of the graph-build effect: if (cyRef.current) destroy()
Cleanup(e) ==
  IF e.cyRef # NoInstance
  THEN [e EXCEPT !.liveInstances = @ - 1, !.calls = Append(@, "destroy")]
  ELSE e

\* the body of the graph-build effect (the container is always rendered):
\* transformDataToGraph(), cytoscape({...}), cyRef.current = cy, cy.on twice
RunBuild(e, env, layoutName) ==
  [cyRef |-> NewInstance(transformDataToGraph(env), layoutName),
   liveInstances |-> e.liveInstances + 1,
   calls |-> e.calls \o <<"transformDataToGraph", "cytoscape", "on", "on">>]

\* the body of the layout effect: cyRef.current.layout({...}).run()
RunLayout(e, layoutName) ==
  IF e.cyRef = NoInstance THEN e
  ELSE [e EXCEPT !.cyRef.layout = layoutName,
                 !.calls = Append(@, "layout.run")]

\* a commit that runs the layout effect before the graph-build effect
CommitLayoutFirst(buildRuns, layoutRuns) ==
  LET laid == IF layoutRuns THEN RunLayout(EngineAtCommit, layout')
              ELSE EngineAtCommit
      e == IF buildRuns THEN RunBuild(Cleanup(laid), Closure', layout')
           ELSE laid
  IN  /\ cyRef' = e.cyRef
      /\ liveInstances' = e.liveInstances
      /\ calls' = e.calls

\* the effects of a commit: the graph-build effect (cleanup of its previous
\* run, then its body) if buildRuns, then the layout effect if layoutRuns
Commit(buildRuns, layoutRuns) ==
  LET built == IF buildRuns
               THEN RunBuild(Cleanup(EngineAtCommit), Closure', layout')
               ELSE EngineAtCommit
      e == IF layoutRuns THEN RunLayout(built, layout') ELSE built
  IN  /\ cyRef' = e.cyRef
      /\ liveInstances' = e.liveInstances
      /\ calls' = e.calls

\* the state of the first render of the component given the props of m
FirstRender(m) ==
  /\ functions = m.functions
  /\ classes = m.classes
  /\ relationships = m.relationships
  /\ selectedNode = NoSelection
  /\ layout = "cose"
  /\ searchTerm = ""
  /\ showFunctions = TRUE
  /\ showClasses = TRUE
  /\ showMethods = TRUE
  /\ showRelationships = TRUE
  /\ cyRef = NoInstance
  /\ liveInstances = 0
  /\ calls = <<>>

InitGraph ==
  /\ \E m \in EntityModels(MaxWeight, TRUE) : FirstRender(m)
  /\ home = NotHome

\* the effects of the first render: every effect runs
Mount ==
  /\ cyRef = NoInstance
  /\ UNCHANGED <<home, props, selectedNode, layout, searchTerm, showFunctions,
                 showClasses, showMethods, showRelationships>>
  /\ Commit(TRUE, TRUE)

\* a dependency list of the callback without searchTerm
CallbackChangedNoSearchTerm ==
  \/ relationships' = Omitted
  \/ [Closure' EXCEPT !.searchTerm = ""] # [Closure EXCEPT !.searchTerm = ""]

\* useCallback(..., [functions, classes, relationships, searchTerm, show...]):
\* the callback of this render is a new one if a dependency changed; the
\* default value of an omitted relationships prop is a new object each render
CallbackChanged == relationships' = Omitted \/ Closure' # Closure

\* [transformDataToGraph, layout]
BuildEffectRuns == CallbackChanged \/ layout' # layout

\* [layout]
LayoutEffectRuns == layout' # layout

\* a render after a state change, and the effects whose dependencies changed
Render == Commit(BuildEffectRuns, LayoutEffectRuns)

\* onChange of the search box
setSearchTerm ==
  /\ cyRef # NoInstance
  /\ \E value \in SearchTerms \ {searchTerm} : searchTerm' = value
  /\ UNCHANGED <<home, props, selectedNode, layout, showFunctions, showClasses,
                 showMethods, showRelationships>>
  /\ Render

\* onChange of the Functions checkbox
setShowFunctions ==
  /\ cyRef # NoInstance
  /\ showFunctions' = ~showFunctions
  /\ UNCHANGED <<home, props, selectedNode, layout, searchTerm, showClasses,
                 showMethods, showRelationships>>
  /\ Render

\* onChange of the Classes checkbox
setShowClasses ==
  /\ cyRef # NoInstance
  /\ showClasses' = ~showClasses
  /\ UNCHANGED <<home, props, selectedNode, layout, searchTerm, showFunctions,
                 showMethods, showRelationships>>
  /\ Render

\* onChange of the Methods checkbox
setShowMethods ==
  /\ cyRef # NoInstance
  /\ showMethods' = ~showMethods
  /\ UNCHANGED <<home, props, selectedNode, layout, searchTerm, showFunctions,
                 showClasses, showRelationships>>
  /\ Render

\* a render that changes no prop and no state (the parent renders again):
\* the default value of an omitted relationships prop is a new object, so
\* the transformDataToGraph callback is a new one and the build effect runs
Rerender ==
  /\ cyRef # NoInstance
  /\ relationships = Omitted
  /\ UNCHANGED <<home, props, selectedNode, layout, searchTerm, showFunctions,
                 showClasses, showMethods, showRelationships>>
  /\ Render

NextGraph ==
  \/ Mount
  \/ Rerender
  \/ setSearchTerm
  \/ setShowFunctions
  \/ setShowClasses
  \/ setShowMethods

SpecGraph == InitGraph /\ [][NextGraph]_vars

\* the same component mounted with the entity models of the call loops
InitFunctionCalls ==
  /\ \E m \in FunctionCallModels : FirstRender(m)
  /\ home = NotHome

SpecFunctionCalls == InitFunctionCalls /\ [][NextGraph]_vars

InitMethodCalls ==
  /\ \E m \in MethodCallModels : FirstRender(m)
  /\ home = NotHome

SpecMethodCalls == InitMethodCalls /\ [][NextGraph]_vars

(***************************************************************************)
(* The whole component: layout choice, taps, unmounting and mounting again *)
(* with the result of a new parse.                                         *)
(***************************************************************************)
\* onChange of the layout select
setLayout ==
  /\ cyRef # NoInstance
  /\ \E value \in Layouts \ {layout} : layout' = value
  /\ UNCHANGED <<home, props, selectedNode, searchTerm, showFunctions, showClasses,
                 showMethods, showRelationships>>
  /\ Render

\* setSelectedNode(value): a value that is the same object as the state
\* causes no render; the model cannot tell two equal payloads of different
\* objects from one object, so an equal payload may or may not render
setSelectedNode(value) ==
  /\ selectedNode' = value
  /\ UNCHANGED <<home, props, layout, searchTerm, showFunctions, showClasses,
                 showMethods, showRelationships>>
  /\ \/ /\ ~(value = NoSelection /\ selectedNode = NoSelection)
        /\ Render
     \/ /\ value = selectedNode
        /\ UNCHANGED <<cyRef, liveInstances>>
        /\ calls' = <<>>

\* the targets of a tap: a node, an edge, or the core (the empty canvas)
NodeTarget(node) == [group |-> "nodes", nodeData |-> node.nodeData]

EdgeTarget == [group |-> "edges"]

CoreTarget == [group |-> "core"]

\* cy.on("tap", "node", ...): runs for a target that matches the selector;
\* updates is the sequence of state updates the handlers of the tap queued
TapNodeHandler(updates, target) ==
  IF target.group = "nodes" THEN Append(updates, target.nodeData) ELSE updates

\* TapHandler without the test of the target
TapHandlerAnyTarget(updates, target) == Append(updates, NoSelection)

\* cy.on("tap", ...): runs for every target
TapHandler(updates, target) ==
  IF target.group = "core" THEN Append(updates, NoSelection) ELSE updates

\* a tap: the handlers run in the order of their registration, and the
\* state is the value of the last update
Tap(target) ==
  LET updates == TapHandler(TapNodeHandler(<<>>, target), target)
  IN  IF updates = <<>>
      THEN /\ UNCHANGED <<home, props, selectedNode, layout, searchTerm,
                          showFunctions, showClasses, showMethods,
                          showRelationships, cyRef, liveInstances>>
           /\ calls' = <<>>
      ELSE setSelectedNode(updates[Len(updates)])

tapNode ==
  /\ cyRef # NoInstance
  /\ \E k \in 1..Len(cyRef.nodes) : Tap(NodeTarget(cyRef.nodes[k]))

tapEdge ==
  /\ cyRef # NoInstance
  /\ Len(cyRef.edges) > 0
  /\ Tap(EdgeTarget)

tapBackground ==
  /\ cyRef # NoInstance
  /\ Tap(CoreTarget)

\* Unmount that discards the component without running the cleanup
UnmountNoCleanup ==
  /\ cyRef # NoInstance
  /\ cyRef' = NoInstance
  /\ calls' = <<>>
  /\ selectedNode' = NoSelection
  /\ layout' = "cose"
  /\ searchTerm' = ""
  /\ showFunctions' = TRUE
  /\ showClasses' = TRUE
  /\ showMethods' = TRUE
  /\ showRelationships' = TRUE
  /\ UNCHANGED <<home, props, liveInstances>>

\* Home stops rendering the component (the text tab is chosen, or a new parse
\* clears the result): the cleanup of the graph-build effect runs and the
\* state of the component is discarded; the state variables hold the initial
\* values the next mount starts from
Discard ==
  /\ LET e == Cleanup(EngineAtCommit)
     IN  /\ cyRef' = NoInstance
         /\ liveInstances' = e.liveInstances
         /\ calls' = e.calls
  /\ selectedNode' = NoSelection
  /\ layout' = "cose"
  /\ searchTerm' = ""
  /\ showFunctions' = TRUE
  /\ showClasses' = TRUE
  /\ showMethods' = TRUE
  /\ showRelationships' = TRUE

\* the component is rendered and its parent stops rendering it
Unmount ==
  /\ cyRef # NoInstance
  /\ Discard
  /\ UNCHANGED <<home, props>>

\* the entity models of the whole-component specification
ComponentModels == EntityModels(MaxComponentWeight, TRUE)

\* setResult(data) of a parse that ended while the component is not rendered;
\* Home passes result.functions and result.classes and no relationships
setResult ==
  /\ cyRef = NoInstance
  /\ \E m \in {x \in ComponentModels : x.relationships = Omitted} :
       /\ functions' = m.functions
       /\ classes' = m.classes
       /\ relationships' = m.relationships
  /\ UNCHANGED <<home, selectedNode, layout, searchTerm, showFunctions,
                 showClasses, showMethods, showRelationships, cyRef,
                 liveInstances>>
  /\ calls' = <<>>

Init ==
  /\ \E m \in ComponentModels : FirstRender(m)
  /\ home = NotHome

Next ==
  \/ NextGraph
  \/ setLayout
  \/ tapNode
  \/ tapEdge
  \/ tapBackground
  \/ Unmount
  \/ setResult

Spec == Init /\ [][Next]_vars

(***************************************************************************)
(* The Home page and the API client: the file path box, the parse button,  *)
(* the health check of the first render, the two tabs, and the component   *)
(* mounted in the graph tab with the functions and classes of the result.  *)
(***************************************************************************)
\* useState<ApiResponse | null>(null)
NoResult == [none |-> TRUE]

\* values of the file path box: empty, blanks, the default path
FilePaths == {"", "  ", "../examples/python_project/hello.py"}

\* String.prototype.trim for strings whose only white space is the blank
RECURSIVE trim(_)
trim(s) ==
  IF Len(s) = 0 THEN s
  ELSE IF SubSeq(s, 1, 1) = " " THEN trim(SubSeq(s, 2, Len(s)))
  ELSE IF SubSeq(s, Len(s), Len(s)) = " " THEN trim(SubSeq(s, 1, Len(s) - 1))
  ELSE s

\* the ParseResult bodies of the backend, by the fields Home passes on
ParseResults ==
  {[functions |-> m.functions, classes |-> m.classes] : m \in ComponentModels}

\* an ErrorResult body of the backend
BackendErrors == {[error |-> "File not found"]}

\* the body of GET /health
HealthBodies == {[status |-> "healthy"]}

\* what the network does with a request: fetch rejects, or resolves with a
\* response that is not ok, or with an ok response whose body is not JSON,
\* or with an ok response whose body is one of bodies
Responses(bodies) ==
  {[fetch |-> "rejected", message |-> "Failed to fetch"]}
  \cup {[fetch |-> "fulfilled", ok |-> FALSE, status |-> st] : st \in {404, 500}}
  \cup {[fetch |-> "fulfilled", ok |-> TRUE, status |-> 200,
         json |-> "rejected", message |-> "Unexpected token < in JSON"]}
  \cup {[fetch |-> "fulfilled", ok |-> TRUE, status |-> 200,
         json |-> "fulfilled", data |-> d] : d \in bodies}

Threw(message) == [threw |-> TRUE, message |-> message]

Returned(value) == [threw |-> FALSE, value |-> value]

Fulfilled(value) == [state |-> "fulfilled", value |-> value]

Rejected(reason) == [state |-> "rejected", reason |-> reason]

\* the try block of parsePythonFile and of checkHealth: await fetch(...),
\* if (!response.ok) throw new Error(...), return await response.json()
TryFetchJson(net) ==
  IF net.fetch = "rejected" THEN Threw(net.message)
  ELSE IF ~net.ok
       THEN Threw("HTTP error! status: " \o ToString(net.status))
       ELSE IF net.json = "rejected" THEN Threw(net.message)
            ELSE Returned(net.data)

\* parsePythonFile without its catch block
parsePythonFileNoCatch(filePath, net) ==
  LET t == TryFetchJson(net)
  IN  IF t.threw THEN Rejected(t.message) ELSE Fulfilled(t.value)

\* the promise of parsePythonFile(filePath) once the network has answered
parsePythonFile(filePath, net) ==
  LET t == TryFetchJson(net)
  IN  IF t.threw THEN Fulfilled([error |-> t.message]) ELSE Fulfilled(t.value)

\* the promise of checkHealth() once the network has answered
checkHealth(net) ==
  LET t == TryFetchJson(net)
  IN  IF t.threw THEN Fulfilled([error |-> t.message]) ELSE Fulfilled(t.value)

\* the state of Home after its first render and the effect of that render,
\* which has called checkHealth(); event names the code that ran last
HomeFirstRender ==
  [filePath |-> "../examples/python_project/hello.py",
   result |-> NoResult,
   loading |-> FALSE,
   backendStatus |-> "checking",
   activeTab |-> "text",
   parse |-> [phase |-> "idle"],
   health |-> [phase |-> "pending"],
   event |-> "useEffect"]

\* result && !("error" in result) && activeTab === "graph"
GraphShown(h) ==
  /\ h.result # NoResult
  /\ "error" \notin DOMAIN h.result
  /\ h.activeTab = "graph"

\* Home renders with the state h: the component is mounted, rendered again
\* or unmounted as the graph tab of a result appears, stays or disappears
HomeRender(h) ==
  /\ home' = h
  /\ IF GraphShown(h)
     THEN /\ functions' = h.result.functions
          /\ classes' = h.result.classes
          /\ relationships' = Omitted
          /\ UNCHANGED <<selectedNode, layout, searchTerm, showFunctions,
                         showClasses, showMethods, showRelationships>>
          /\ IF GraphShown(home) THEN Render ELSE Commit(TRUE, TRUE)
     ELSE /\ UNCHANGED props
          /\ IF GraphShown(home)
             THEN Discard
             ELSE /\ UNCHANGED <<selectedNode, layout, searchTerm,
                                 showFunctions, showClasses, showMethods,
                                 showRelationships, cyRef, liveInstances>>
                  /\ calls' = <<>>

\* onChange of the file path box
setFilePath ==
  \E value \in FilePaths \ {home.filePath} :
    HomeRender([home EXCEPT !.filePath = value, !.event = "setFilePath"])

\* onClick of a tab button; the tabs are rendered for a result without error
setActiveTab ==
  /\ home.result # NoResult
  /\ "error" \notin DOMAIN home.result
  /\ \E value \in {"text", "graph"} \ {home.activeTab} :
       HomeRender([home EXCEPT !.activeTab = value, !.event = "setActiveTab"])

\* onClick of the parse button, which is disabled while loading and while
\* the backend is not online: handleParse up to its await
handleParse ==
  /\ ~home.loading
  /\ home.backendStatus = "online"
  /\ IF trim(home.filePath) = ""
     THEN /\ home' = [home EXCEPT !.event = "handleParse"]
          /\ UNCHANGED <<props, selectedNode, layout, searchTerm,
                         showFunctions, showClasses, showMethods,
                         showRelationships, cyRef, liveInstances, calls>>
     ELSE HomeRender([home EXCEPT
                        !.loading = TRUE,
                        !.result = NoResult,
                        !.parse = [phase |-> "pending",
                                   filePath |-> home.filePath],
                        !.event = "handleParse"])

\* the network answers the request of parsePythonFile, whose promise settles
parseSettles ==
  /\ home.parse.phase = "pending"
  /\ \E net \in Responses(ParseResults \cup BackendErrors) :
       home' = [home EXCEPT
                  !.parse = [phase |-> "settled", net |-> net,
                             promise |-> parsePythonFile(home.parse.filePath,
                                                         net)],
                  !.event = "parsePythonFile"]
  /\ UNCHANGED <<props, selectedNode, layout, searchTerm, showFunctions,
                 showClasses, showMethods, showRelationships, cyRef,
                 liveInstances, calls>>

\* handleParse after its await: setResult(data), or the catch block, then
\* the finally block
handleParseResumes ==
  /\ home.parse.phase = "settled"
  /\ LET promise == home.parse.promise
         data == IF promise.state = "fulfilled" THEN promise.value
                 ELSE [error |-> "Failed to parse file"]
     IN  HomeRender([home EXCEPT
                       !.result = data,
                       !.loading = FALSE,
                       !.parse = [phase |-> "idle"],
                       !.event = "handleParse.finally"])

\* the network answers the request of checkHealth, whose promise settles
healthSettles ==
  /\ home.health.phase = "pending"
  /\ \E net \in Responses(HealthBodies \cup BackendErrors) :
       home' = [home EXCEPT
                  !.health = [phase |-> "settled", net |-> net,
                              promise |-> checkHealth(net)],
                  !.event = "checkHealth"]
  /\ UNCHANGED <<props, selectedNode, layout, searchTerm, showFunctions,
                 showClasses, showMethods, showRelationships, cyRef,
                 liveInstances, calls>>

\* checkHealth().then((health) => setBackendStatus(...)); a rejection has no
\* handler and sets nothing
healthThen ==
  /\ home.health.phase = "settled"
  /\ LET promise == home.health.promise
     IN  IF promise.state = "fulfilled"
         THEN HomeRender([home EXCEPT
                            !.backendStatus =
                               IF "status" \in DOMAIN promise.value
                               THEN "online" ELSE "offline",
                            !.health = [phase |-> "done"],
                            !.event = "then"])
         ELSE /\ home' = [home EXCEPT !.health = [phase |-> "unhandled"],
                                      !.event = "unhandledrejection"]
              /\ UNCHANGED <<props, selectedNode, layout, searchTerm,
                             showFunctions, showClasses, showMethods,
                             showRelationships, cyRef, liveInstances, calls>>

InitHome ==
  /\ FirstRender([functions |-> <<>>, classes |-> <<>>,
                  relationships |-> Omitted])
  /\ home = HomeFirstRender

NextHome ==
  \/ setFilePath
  \/ setActiveTab
  \/ handleParse
  \/ parseSettles
  \/ handleParseResumes
  \/ healthSettles
  \/ healthThen

SpecHome == InitHome /\ [][NextHome]_vars

(***************************************************************************)
(* Vocabulary of the properties.  These definitions are written from the   *)
(* statement of the properties, not from transformDataToGraph.             *)
(***************************************************************************)
Range(s) == {s[k] : k \in 1..Len(s)}

Mounted == cyRef # NoInstance

\* number of positions of the sequence s whose element satisfies the set T
CountIn(s, T) == Cardinality({k \in 1..Len(s) : s[k] \in T})

FunctionIndices == 0..(Len(functions) - 1)

ClassIndices == 0..(Len(classes) - 1)

MethodIndices(c) == 0..(Len(classes[c + 1].methods) - 1)

BaseIndices(c) == 0..(Len(classes[c + 1].bases) - 1)

SameLetter(c1, c2) ==
  \/ c1 = c2
  \/ \E k \in 1..26 :
       {c1, c2} = {SubSeq(UpperCaseLetters, k, k), SubSeq(LowerCaseLetters, k, k)}

\* name contains s, letters compared without regard to case
ContainsIgnoreCase(name, s) ==
  \E k \in 0..(Len(name) - Len(s)) :
    \A j \in 1..Len(s) :
      SameLetter(SubSeq(name, k + j, k + j), SubSeq(s, j, j))

FunctionVisible(i) ==
  showFunctions /\ ContainsIgnoreCase(functions[i + 1].name, searchTerm)

ClassVisible(c) ==
  showClasses /\ ContainsIgnoreCase(classes[c + 1].name, searchTerm)

MethodVisible(c, m) ==
  /\ ClassVisible(c)
  /\ showMethods
  /\ ContainsIgnoreCase(classes[c + 1].methods[m + 1].name, searchTerm)

FunctionId(i) == "func-" \o ToString(i)

ClassId(c) == "class-" \o ToString(c)

MethodId(c, m) == "method-" \o ToString(c) \o "-" \o ToString(m)

StubId(name) == "base-" \o name

\* the node of an entity, determined by the entity's position alone
FunctionNode(i) ==
  [id |-> FunctionId(i), label |-> functions[i + 1].name,
   type |-> "function", nodeData |-> functions[i + 1]]

ClassNode(c) ==
  [id |-> ClassId(c), label |-> classes[c + 1].name,
   type |-> "class", nodeData |-> classes[c + 1]]

MethodNode(c, m) ==
  [id |-> MethodId(c, m), label |-> classes[c + 1].methods[m + 1].name,
   type |-> "method", nodeData |-> classes[c + 1].methods[m + 1]]

IsStub(n) == n.type = "class" /\ n.id = StubId(n.label)

\* the base names listed by the classes that are visible
VisibleBaseNames ==
  UNION {Range(classes[c + 1].bases) : c \in {x \in ClassIndices : ClassVisible(x)}}

(***************************************************************************)
(* C1: the id of the node of a parsed entity depends on the entity's       *)
(* original position alone.  In the build of every filter state each node  *)
(* is the position-determined node of a function (func-i), class           *)
(* (class-c) or method (method-c-m), or a stub, and every visible entity   *)
(* has its position-determined node; so an entity with a node in two       *)
(* builds has the same id, label and kind in both.                         *)
(***************************************************************************)
C1_StableIds ==
  Mounted =>
    /\ \A n \in Range(cyRef.nodes) :
         \/ \E i \in FunctionIndices : n = FunctionNode(i)
         \/ \E c \in ClassIndices : n = ClassNode(c)
         \/ \E c \in ClassIndices : \E m \in MethodIndices(c) : n = MethodNode(c, m)
         \/ IsStub(n)
    /\ \A i \in FunctionIndices :
         FunctionVisible(i) => FunctionNode(i) \in Range(cyRef.nodes)
    /\ \A c \in ClassIndices :
         ClassVisible(c) => ClassNode(c) \in Range(cyRef.nodes)
    /\ \A c \in ClassIndices : \A m \in MethodIndices(c) :
         MethodVisible(c, m) => MethodNode(c, m) \in Range(cyRef.nodes)

\* the search term hides the first of two functions; the second keeps func-1
C1_Witness ==
  /\ Mounted
  /\ Len(functions) = 2 /\ searchTerm # ""
  /\ ~FunctionVisible(0) /\ FunctionVisible(1)
  /\ FunctionNode(1) \in Range(cyRef.nodes)

(***************************************************************************)
(* C2: no two nodes of a built graph have the same id.                     *)
(***************************************************************************)
C2_UniqueNodeIds ==
  Mounted =>
    \A j, k \in 1..Len(cyRef.nodes) :
      j # k => cyRef.nodes[j].id # cyRef.nodes[k].id

\* two visible classes list the same base, for which a stub exists
C2_Witness ==
  /\ Mounted
  /\ \E c1, c2 \in ClassIndices :
       /\ c1 # c2 /\ ClassVisible(c1) /\ ClassVisible(c2)
       /\ \E name \in Range(classes[c1 + 1].bases) \cap Range(classes[c2 + 1].bases) :
            \E n \in Range(cyRef.nodes) : n.id = StubId(name)

(***************************************************************************)
(* C3: the function-kind nodes are exactly the nodes func-i of the         *)
(* functions i that pass the search while showFunctions is set; with       *)
(* showFunctions unset there is no function-kind node.                     *)
(***************************************************************************)
C3_FunctionNodesExact ==
  Mounted =>
    /\ {n \in Range(cyRef.nodes) : n.type = "function"}
         = {FunctionNode(i) : i \in {x \in FunctionIndices : FunctionVisible(x)}}
    /\ CountIn(cyRef.nodes, {n \in Range(cyRef.nodes) : n.type = "function"})
         = Cardinality({x \in FunctionIndices : FunctionVisible(x)})

\* showFunctions is unset for a model with a function, a stub and a call record
C3_Witness ==
  /\ Mounted
  /\ ~showFunctions
  /\ Len(functions) > 0
  /\ \E n \in Range(cyRef.nodes) : IsStub(n)
  /\ Len(RelationshipsOrDefault.function_calls) > 0

(***************************************************************************)
(* C4, as claimed: with showClasses set, the class-kind nodes are exactly  *)
(* the nodes of the parsed classes whose name contains the search term     *)
(* without regard to case.                                                 *)
(***************************************************************************)
C4_ClassNodesExact ==
  (Mounted /\ showClasses) =>
    {n \in Range(cyRef.nodes) : n.type = "class"}
      = {ClassNode(c) : c \in {x \in ClassIndices : ClassVisible(x)}}

(***************************************************************************)
(* C4, amended: with showClasses set, the class-kind nodes with an id      *)
(* class-c are exactly the nodes of the parsed classes whose name contains *)
(* the search term without regard to case; every other class-kind node is  *)
(* a stub base-{name} of a base listed by one of those classes, whatever   *)
(* its name.                                                               *)
(***************************************************************************)
C4_ParsedClassNodesExact ==
  (Mounted /\ showClasses) =>
    LET classKind == {n \in Range(cyRef.nodes) : n.type = "class"}
        parsed == {ClassNode(c) : c \in {x \in ClassIndices : ClassVisible(x)}}
    IN  /\ parsed \subseteq classKind
        /\ \A n \in classKind \ parsed :
             IsStub(n) /\ n.label \in VisibleBaseNames
        /\ \A n \in classKind :
             (\E c \in ClassIndices : n.id = ClassId(c)) => n \in parsed

\* a search term hides a parsed class and shows another, whose stub base
\* does not contain the term
C4_Witness ==
  /\ Mounted /\ showClasses /\ searchTerm # ""
  /\ \E c1, c2 \in ClassIndices : ClassVisible(c1) /\ ~ClassVisible(c2)
  /\ \E n \in Range(cyRef.nodes) :
       IsStub(n) /\ ~ContainsIgnoreCase(n.label, searchTerm)

(***************************************************************************)
(* C5: no calls edge of a built graph has its source as its target.        *)
(***************************************************************************)
C5_NoSelfLoops ==
  Mounted =>
    \A e \in Range(cyRef.edges) : e.type = "calls" => e.source # e.target

\* a function_calls record whose caller and callee are one name, carried by
\* a function node and by a class node of the graph
C5_Witness ==
  /\ Mounted
  /\ \E r \in Range(RelationshipsOrDefault.function_calls) :
       /\ r.caller = r.callee
       /\ \E n1, n2 \in Range(cyRef.nodes) :
            /\ n1.label = r.callee /\ n1.type = "function"
            /\ n2.label = r.callee /\ n2.type = "class"

(***************************************************************************)
(* C6: with showMethods set, the number of contains edges is the number of *)
(* methods that pass the search in the classes that have a class node, and *)
(* each such method has exactly one contains edge class-c -> method-c-m.   *)
(***************************************************************************)
C6_ContainsCount ==
  (Mounted /\ showMethods) =>
    /\ CountIn(cyRef.edges, {e \in Range(cyRef.edges) : e.type = "contains"})
         = Cardinality({cm \in UNION {{<<c, m>> : m \in MethodIndices(c)} :
                                        c \in ClassIndices} :
                          MethodVisible(cm[1], cm[2])})
    /\ \A c \in ClassIndices : \A m \in MethodIndices(c) :
         MethodVisible(c, m) =>
           CountIn(cyRef.edges,
                   {e \in Range(cyRef.edges) :
                      /\ e.type = "contains"
                      /\ e.source = ClassId(c)
                      /\ e.target = MethodId(c, m)}) = 1

\* a visible class with two methods of which the search term hides one
C6_Witness ==
  /\ Mounted /\ showMethods
  /\ \E c \in ClassIndices : \E m1, m2 \in MethodIndices(c) :
       /\ MethodVisible(c, m1)
       /\ ClassVisible(c) /\ ~MethodVisible(c, m2)
  /\ \E e \in Range(cyRef.edges) : e.type = "contains"

(***************************************************************************)
(* C7: a build effect that runs with the functions, classes,               *)
(* relationships, flags and search term of the build before it yields the  *)
(* same set of node ids and the same set of edge ids: nothing of one build *)
(* is carried into the next.                                               *)
(***************************************************************************)
NodeIds(instance) == {n.id : n \in Range(instance.nodes)}

EdgeIds(instance) == {e.id : e \in Range(instance.edges)}

C8_UnknownBaseStub ==
  Mounted =>
    \A c \in ClassIndices :
      ( /\ ClassVisible(c)
        /\ "Unknown" \in Range(classes[c + 1].bases)
        /\ \A x \in ClassIndices : classes[x + 1].name # "Unknown" )
      => /\ CountIn(cyRef.nodes,
                    {n \in Range(cyRef.nodes) : n.id = StubId("Unknown")}) = 1
         /\ \E e \in Range(cyRef.edges) :
              /\ e.type = "inherits"
              /\ e.source = ClassId(c)
              /\ e.target = StubId("Unknown")

(***************************************************************************)
(* C9: every contains edge goes from a class node to a method node, both   *)
(* in the same build, and every method node method-c-m comes with the      *)
(* class node class-c of its owner.                                        *)
(***************************************************************************)
C9_ContainsEndpoints ==
  Mounted =>
    /\ \A e \in Range(cyRef.edges) :
         e.type = "contains" =>
           /\ \E n \in Range(cyRef.nodes) : n.id = e.source /\ n.type = "class"
           /\ \E n \in Range(cyRef.nodes) : n.id = e.target /\ n.type = "method"
    /\ \A n \in Range(cyRef.nodes) :
         n.type = "method" =>
           \E c \in ClassIndices : \E m \in MethodIndices(c) :
             /\ n.id = MethodId(c, m)
             /\ ClassNode(c) \in Range(cyRef.nodes)
             /\ \E e \in Range(cyRef.edges) :
                  e.type = "contains" /\ e.source = ClassId(c) /\ e.target = n.id

\* showMethods is set and a class whose method passes the search has no
\* node, while another class keeps a method node
C9_Witness ==
  /\ Mounted /\ showMethods /\ showClasses
  /\ \E c \in ClassIndices : \E m \in MethodIndices(c) :
       /\ ~ClassVisible(c)
       /\ ContainsIgnoreCase(classes[c + 1].methods[m + 1].name, searchTerm)
  /\ \E n \in Range(cyRef.nodes) : n.type = "method"

(***************************************************************************)
(* C10: the build with showRelationships unset has the nodes and the       *)
(* contains and inherits edges of the build with showRelationships set,    *)
(* and no calls edge.                                                      *)
(***************************************************************************)
WithoutCalls(edges) == SelectSeq(edges, LAMBDA e : e.type # "calls")

C10_RelationshipsFrame ==
  Mounted =>
    \* no control unsets the flag: cyRef holds the build with it set
    LET hidden == transformDataToGraph([Closure EXCEPT !.showRelationships = FALSE])
    IN  /\ showRelationships
        /\ hidden.nodes = cyRef.nodes
        /\ hidden.edges = WithoutCalls(cyRef.edges)
        /\ \A e \in Range(hidden.edges) : e.type \in {"contains", "inherits"}

\* a build with a stub, an inherits edge and a calls edge
C10_Witness ==
  /\ Mounted
  /\ \E n \in Range(cyRef.nodes) : IsStub(n)
  /\ \E e \in Range(cyRef.edges) : e.type = "inherits"
  /\ \E e \in Range(cyRef.edges) : e.type = "calls"

(***************************************************************************)
(* C11, as claimed: a commit in which only the layout choice changed (the  *)
(* entity model, the flags and the search term are those of the commit     *)
(* before) destroys no instance, constructs none, does not run             *)
(* transformDataToGraph and calls only the positioning pass of the         *)
(* instance in cyRef.                                                      *)
(***************************************************************************)
C11_LayoutReusesInstance ==
  [][(Mounted /\ cyRef' # NoInstance /\ layout' # layout /\ Closure' = Closure) =>
       /\ calls' = <<"layout.run">>
       /\ liveInstances' = liveInstances
       /\ cyRef'.nodes = cyRef.nodes
       /\ cyRef'.edges = cyRef.edges]_vars

(***************************************************************************)
(* C12: at most one engine instance is live at any time.  Between commits  *)
(* the only live instance is the one in cyRef; within a commit at most one *)
(* instance is constructed, and the instance that was in cyRef is          *)
(* destroyed before it.                                                    *)
(***************************************************************************)
C12_AtMostOneLive ==
  /\ liveInstances = IF Mounted THEN 1 ELSE 0
  /\ Cardinality({k \in 1..Len(calls) : calls[k] = "cytoscape"}) <= 1
  /\ \A j, k \in 1..Len(calls) :
       (calls[j] = "destroy" /\ calls[k] = "cytoscape") => j < k

\* a tap selected a node and the commit after it replaced the instance
C12_Witness ==
  /\ Mounted
  /\ selectedNode # NoSelection
  /\ calls = <<"destroy", "transformDataToGraph", "cytoscape", "on", "on">>

(***************************************************************************)
(* C13: once the component is unmounted no engine instance is live: the    *)
(* instance it held was destroyed by the unmount, and every instance it    *)
(* replaced before was destroyed when it was replaced.                     *)
(***************************************************************************)
C13_NoInstanceAfterUnmount ==
  ~Mounted => liveInstances = 0

\* the component was unmounted after it had built a graph
C13_Witness ==
  /\ ~Mounted
  /\ calls = <<"destroy">>
  /\ liveInstances = 0

(***************************************************************************)
(* C14: a tap on a node of the graph in cyRef leaves selectedNode equal to *)
(* the nodeData of that node, which is never null; a tap on the empty      *)
(* canvas leaves selectedNode null.                                        *)
(***************************************************************************)
C14_TapSelection ==
  [][Mounted =>
       /\ \A k \in 1..Len(cyRef.nodes) :
            Tap(NodeTarget(cyRef.nodes[k])) =>
              /\ selectedNode' = cyRef.nodes[k].nodeData
              /\ selectedNode' # NoSelection
       /\ Tap(CoreTarget) => selectedNode' = NoSelection]_vars

\* the payload of a stub is selected
C14_Witness ==
  /\ Mounted
  /\ \E n \in Range(cyRef.nodes) : IsStub(n) /\ selectedNode = n.nodeData

(***************************************************************************)
(* C15: with the relationships prop omitted, the built graph is the graph  *)
(* built from four empty collections passed explicitly, and it has no      *)
(* calls edge.                                                             *)
(***************************************************************************)
C15_OmittedIsEmpty ==
  (Mounted /\ relationships = Omitted) =>
    LET explicit ==
          transformDataToGraph(
            [Closure EXCEPT !.relationships =
               [function_calls |-> <<>>, class_inheritance |-> <<>>,
                method_calls |-> <<>>, attribute_access |-> <<>>]])
    IN  /\ cyRef.nodes = explicit.nodes
        /\ cyRef.edges = explicit.edges
        /\ \A e \in Range(cyRef.edges) : e.type # "calls"

\* the prop is omitted for two functions of different names and a class with
\* a base
C15_Witness ==
  /\ Mounted /\ relationships = Omitted
  /\ \E n1, n2 \in Range(cyRef.nodes) :
       n1.type = "function" /\ n2.type = "function" /\ n1.label # n2.label
  /\ \E e \in Range(cyRef.edges) : e.type = "inherits"

(***************************************************************************)
(* C16, as claimed: whenever a parsed class named N exists, no built graph *)
(* has a node with id base-N.                                              *)
(***************************************************************************)
C16_NoStubForParsedClass ==
  Mounted =>
    \A c \in ClassIndices :
      \A n \in Range(cyRef.nodes) : n.id # StubId(classes[c + 1].name)

(***************************************************************************)
(* C17: the commit that follows the switch of showMethods from set to      *)
(* unset, with nothing else changed, removes the method nodes, the         *)
(* contains edges and the calls edges whose target is a method node, and   *)
(* keeps every other node and edge as it was.                              *)
(***************************************************************************)
C17_ShowMethodsFrame ==
  [][(/\ Mounted
      /\ showMethods /\ ~showMethods'
      /\ [Closure' EXCEPT !.showMethods = TRUE] = Closure) =>
       LET IsMethodId(id) ==
             \E n \in Range(cyRef.nodes) : n.id = id /\ n.type = "method"
       IN  /\ cyRef'.nodes = SelectSeq(cyRef.nodes, LAMBDA n : n.type # "method")
           /\ cyRef'.edges =
                SelectSeq(cyRef.edges,
                          LAMBDA e : /\ e.type # "contains"
                                     /\ ~(e.type = "calls" /\ IsMethodId(e.target)))
           /\ \A e \in Range(cyRef.edges) :
                e.type = "inherits" => e \in Range(cyRef'.edges)]_vars

\* showMethods is unset for a class with a node, a method and a stub base
C17_Witness ==
  /\ Mounted /\ ~showMethods
  /\ \E c \in ClassIndices :
       /\ ClassVisible(c)
       /\ \E m \in MethodIndices(c) :
            ContainsIgnoreCase(classes[c + 1].methods[m + 1].name, searchTerm)
       /\ \E n \in Range(cyRef.nodes) :
            IsStub(n) /\ n.label \in Range(classes[c + 1].bases)
  /\ \E e \in Range(cyRef.edges) : e.type = "inherits"

(***************************************************************************)
(* The name registry as the nodes of a built graph show it: a function, a  *)
(* class and a stub register their name when their node is added, a method *)
(* registers nothing, and a later registration replaces an earlier one.    *)
(***************************************************************************)
\* the positions of the nodes that registered name
Registered(name) ==
  {k \in 1..Len(cyRef.nodes) :
     cyRef.nodes[k].type # "method" /\ cyRef.nodes[k].label = name}

Resolves(name) == name # Null /\ Registered(name) # {}

ResolvedId(name) ==
  cyRef.nodes[CHOOSE k \in Registered(name) :
                \A j \in Registered(name) : j <= k].id

\* the edges of the built graph with the given id
EdgesWithId(id) == SelectSeq(cyRef.edges, LAMBDA e : e.id = id)

(***************************************************************************)
(* C18: the function_calls record at index i yields an edge iff its callee *)
(* resolves in the registry, its caller is present and resolves, and the   *)
(* two ids differ; the edge is then the one edge call-i, of kind calls,    *)
(* from the caller's id to the callee's id.  The records add no node and   *)
(* no other edge.                                                          *)
(***************************************************************************)
C18_FunctionCallEdges ==
  (Mounted /\ showRelationships) =>
    LET records == RelationshipsOrDefault.function_calls
    IN  /\ \A i \in 0..(Len(records) - 1) :
             LET r == records[i + 1]
                 callId == "call-" \o ToString(i)
             IN  IF /\ Resolves(r.callee) /\ Resolves(r.caller)
                    /\ ResolvedId(r.caller) # ResolvedId(r.callee)
                 THEN EdgesWithId(callId) =
                        <<[id |-> callId, source |-> ResolvedId(r.caller),
                           target |-> ResolvedId(r.callee), type |-> "calls"]>>
                 ELSE EdgesWithId(callId) = <<>>
        /\ \A e \in Range(cyRef.edges) :
             e.type = "calls" =>
               \/ \E i \in 0..(Len(records) - 1) : e.id = "call-" \o ToString(i)
               \/ \E i \in 0..(Len(RelationshipsOrDefault.method_calls) - 1) :
                    e.id = "method-call-" \o ToString(i)
        /\ \A n \in Range(cyRef.nodes) :
             \/ \E i \in FunctionIndices : n = FunctionNode(i)
             \/ \E c \in ClassIndices : n = ClassNode(c)
             \/ \E c \in ClassIndices : \E m \in MethodIndices(c) : n = MethodNode(c, m)
             \/ IsStub(n) /\ n.label \in VisibleBaseNames

\* the edge of a record whose callee is the name of two nodes
C18_Witness ==
  /\ Mounted
  /\ \E r \in Range(RelationshipsOrDefault.function_calls) :
       /\ Cardinality(Registered(r.callee)) >= 2
       /\ \E e \in Range(cyRef.edges) :
            e.id = "call-0" /\ e.target = ResolvedId(r.callee)

C20_IgnoredCollections ==
  Mounted =>
    LET emptied ==
          transformDataToGraph(
            [Closure EXCEPT !.relationships.class_inheritance = <<>>,
                            !.relationships.attribute_access = <<>>])
    IN  /\ cyRef.nodes = emptied.nodes
        /\ cyRef.edges = emptied.edges

\* both collections hold a record, and the names of the class_inheritance
\* record are names of nodes of the graph
C20_Witness ==
  /\ Mounted
  /\ RelationshipsOrDefault.class_inheritance = <<InheritanceRecord>>
  /\ RelationshipsOrDefault.attribute_access = <<AttributeRecord>>
  /\ Resolves(InheritanceRecord.caller)
  /\ Resolves(InheritanceRecord.callee)

(***************************************************************************)
(* C21: a name resolves to one id, that of the visible entity of that name *)
(* processed last: the visible class of the name with the highest index    *)
(* or, if no visible class has the name, the visible function of the name  *)
(* with the highest index.  The edges of the function_calls and            *)
(* method_calls records that name a visible entity start and end there,    *)
(* and no record has two edges.                                            *)
(***************************************************************************)
VisibleFunctionsNamed(name) ==
  {i \in FunctionIndices : FunctionVisible(i) /\ functions[i + 1].name = name}

VisibleClassesNamed(name) ==
  {c \in ClassIndices : ClassVisible(c) /\ classes[c + 1].name = name}

NamesVisibleEntity(name) ==
  VisibleFunctionsNamed(name) # {} \/ VisibleClassesNamed(name) # {}

Highest(S) == CHOOSE k \in S : \A j \in S : j <= k

LastEntityId(name) ==
  IF VisibleClassesNamed(name) # {}
  THEN ClassId(Highest(VisibleClassesNamed(name)))
  ELSE FunctionId(Highest(VisibleFunctionsNamed(name)))

C21_LastWriteWins ==
  Mounted =>
    /\ \A i \in 0..(Len(RelationshipsOrDefault.function_calls) - 1) :
         LET r == RelationshipsOrDefault.function_calls[i + 1]
             es == EdgesWithId("call-" \o ToString(i))
         IN  /\ Len(es) <= 1
             /\ \A e \in Range(es) :
                  /\ NamesVisibleEntity(r.caller) => e.source = LastEntityId(r.caller)
                  /\ NamesVisibleEntity(r.callee) => e.target = LastEntityId(r.callee)
    /\ \A i \in 0..(Len(RelationshipsOrDefault.method_calls) - 1) :
         LET r == RelationshipsOrDefault.method_calls[i + 1]
             es == EdgesWithId("method-call-" \o ToString(i))
         IN  /\ Len(es) <= 1
             /\ \A e \in Range(es) :
                  NamesVisibleEntity(r.object) => e.source = LastEntityId(r.object)

\* the edge of a call whose callee is the name of a visible function and of
\* a visible class ends at the class
C21_Witness ==
  /\ Mounted
  /\ \E r \in Range(RelationshipsOrDefault.function_calls) :
       /\ VisibleFunctionsNamed(r.callee) # {}
       /\ VisibleClassesNamed(r.callee) # {}
       /\ \E e \in Range(cyRef.edges) :
            e.id = "call-0" /\ e.target = LastEntityId(r.callee)

(***************************************************************************)
(* C22: a layout pass runs against the instance that is current and not    *)
(* destroyed, after the rebuild of the same commit is complete (destroy of *)
(* the old instance, transformDataToGraph, construction, the two handler   *)
(* registrations), and no step of a rebuild follows it.                    *)
(***************************************************************************)
RebuildCalls == <<"transformDataToGraph", "cytoscape", "on", "on">>

C23_SelectionInGraph ==
  (Mounted /\ selectedNode # NoSelection) =>
    \E n \in Range(cyRef.nodes) : n.nodeData = selectedNode

(***************************************************************************)
(* C24: the graph on display is never stale: once the effects of a change  *)
(* have run, the elements of the live instance are the nodes and edges of  *)
(* transformDataToGraph on the current props, flags and search term.       *)
(***************************************************************************)
C24_NeverStale ==
  Mounted =>
    LET graph == transformDataToGraph(Closure)
    IN  /\ cyRef.nodes = graph.nodes
        /\ cyRef.edges = graph.edges

\* the relationships prop is given (the callback is kept between renders
\* that change no dependency) and a search term has rebuilt a smaller graph
C24_Witness ==
  /\ Mounted
  /\ relationships # Omitted
  /\ searchTerm # ""
  /\ calls = <<"destroy">> \o RebuildCalls
  /\ Len(cyRef.nodes) < Len(functions) + Len(classes)

(***************************************************************************)
(* C25: the controls include a toggle of the relationships flag: whenever  *)
(* the component is mounted some interaction changes showRelationships, as *)
(* one does for showFunctions, showClasses and showMethods.                *)
(***************************************************************************)
C25_RelationshipsToggle ==
  Mounted => ENABLED (Next /\ showRelationships' # showRelationships)

(***************************************************************************)
(* C26: a tap that changes the selection, or a render that changes neither *)
(* the props nor a flag nor the search term nor the layout, destroys no    *)
(* instance, constructs none and does not run transformDataToGraph, the    *)
(* relationships prop given or omitted.                                    *)
(***************************************************************************)
C26_NoRebuildWithoutTransition ==
  [][(Mounted /\ Mounted' /\ Closure' = Closure /\ layout' = layout) =>
       /\ liveInstances' = liveInstances
       /\ Range(calls') \cap {"destroy", "transformDataToGraph", "cytoscape"} = {}]_vars

(***************************************************************************)
(* C27: a class with a class node has exactly one inherits edge per entry  *)
(* of its bases list, repeated entries included, from the id of the class  *)
(* to the id the base name resolves to when the class is processed, with   *)
(* id inherit-{classId}-{baseId}-{baseIndex}; the inherits edges are as    *)
(* many as the entries of the bases lists of the visible classes, and a    *)
(* class without a node has no inherits edge and causes no stub.           *)
(***************************************************************************)
\* the id a base name resolves to when the class at index c is processed:
\* the visible class of that name last processed so far (the class itself
\* included), else the last visible function of that name, else the stub
ResolvedBaseId(c, name) ==
  LET earlier == {k \in VisibleClassesNamed(name) : k <= c}
  IN  IF earlier # {} THEN ClassId(Highest(earlier))
      ELSE IF VisibleFunctionsNamed(name) # {}
           THEN FunctionId(Highest(VisibleFunctionsNamed(name)))
           ELSE StubId(name)

InheritsEdge(c, k) ==
  LET baseId == ResolvedBaseId(c, classes[c + 1].bases[k + 1])
  IN  [id |-> "inherit-" \o ClassId(c) \o "-" \o baseId \o "-" \o ToString(k),
       source |-> ClassId(c), target |-> baseId, type |-> "inherits"]

InheritsPositions == {j \in 1..Len(cyRef.edges) : cyRef.edges[j].type = "inherits"}

VisibleBaseEntries ==
  {ck \in ClassIndices \X (0..(MaxBases + 1)) :
     ClassVisible(ck[1]) /\ ck[2] \in BaseIndices(ck[1])}

C27_OneInheritsEdgePerBase ==
  Mounted =>
    /\ \A ck \in VisibleBaseEntries :
         Cardinality({j \in InheritsPositions :
                        cyRef.edges[j] = InheritsEdge(ck[1], ck[2])}) = 1
    /\ Cardinality(InheritsPositions) = Cardinality(VisibleBaseEntries)
    /\ \A j \in InheritsPositions :
         \E c \in ClassIndices : ClassVisible(c) /\ cyRef.edges[j].source = ClassId(c)
    /\ \A n \in Range(cyRef.nodes) : IsStub(n) => n.label \in VisibleBaseNames

\* a visible class lists the same base twice: two edges to the one resolved
\* id, which differ in the base index
C27_Witness ==
  /\ Mounted
  /\ \E c \in ClassIndices :
       /\ ClassVisible(c)
       /\ Len(classes[c + 1].bases) = 2
       /\ classes[c + 1].bases[1] = classes[c + 1].bases[2]
       /\ InheritsEdge(c, 0) \in Range(cyRef.edges)
       /\ InheritsEdge(c, 1) \in Range(cyRef.edges)
       /\ InheritsEdge(c, 0).target = InheritsEdge(c, 1).target

(***************************************************************************)
(* C28: no edge dangles: the source and the target of every edge of a      *)
(* build, of kind contains, inherits or calls, are ids of nodes of the     *)
(* same build, and every id the registry holds once the nodes are built is *)
(* the id of a node of the build.                                          *)
(***************************************************************************)
\* the name registry as the relationship loops find it
RegistryOfBuild ==
  AddClassNodes(Closure, AddFunctionNodes(Closure, NewBuild)).nodeMap

C28_NoDanglingEdge ==
  Mounted =>
    /\ \A e \in Range(cyRef.edges) :
         /\ e.type \in {"contains", "inherits", "calls"}
         /\ e.source \in NodeIds(cyRef)
         /\ e.target \in NodeIds(cyRef)
    /\ \A name \in DOMAIN RegistryOfBuild :
         RegistryOfBuild[name] \in NodeIds(cyRef)

\* a build with an edge of each kind, the inherits edge ending at a stub
C28_Witness ==
  /\ Mounted
  /\ \E e \in Range(cyRef.edges) : e.type = "contains"
  /\ \E e \in Range(cyRef.edges) : e.type = "calls"
  /\ \E e \in Range(cyRef.edges) :
       /\ e.type = "inherits"
       /\ \E n \in Range(cyRef.nodes) : IsStub(n) /\ n.id = e.target

(***************************************************************************)
(* C29: every inherits edge joins two nodes of kind class: its source is   *)
(* the node of a parsed class and its target is a node of kind class, the  *)
(* node of a parsed class or a stub, never a function or a method node.    *)
(***************************************************************************)
C29_InheritsJoinsClasses ==
  Mounted =>
    \A e \in Range(cyRef.edges) :
      e.type = "inherits" =>
        /\ \E c \in ClassIndices : e.source = ClassId(c)
        /\ \A n \in Range(cyRef.nodes) : n.id = e.target => n.type = "class"

(***************************************************************************)
(* C30: the promises of parsePythonFile and checkHealth are never          *)
(* rejected: when fetch rejects, or the response is not ok, the promise is *)
(* fulfilled with an {error} value.  So a handleParse that started with a  *)
(* file path that is not blank ends with loading false and result a        *)
(* ParseResult or an ErrorResult, and a handleParse with a blank file path *)
(* changes nothing.                                                        *)
(***************************************************************************)
\* s is empty or made of blanks
Blank(s) == \A k \in 1..Len(s) : SubSeq(s, k, k) = " "

IsErrorResult(r) == DOMAIN r = {"error"}

IsParseResult(r) == {"functions", "classes"} \subseteq DOMAIN r

\* the network failed, or the status of the response is not ok
Failed(net) == net.fetch = "rejected" \/ ~net.ok

\* a call of an API function that has settled is fulfilled, with an {error}
\* value if the network failed
SettledWell(call) ==
  call.phase = "settled" =>
    /\ call.promise.state = "fulfilled"
    /\ Failed(call.net) => IsErrorResult(call.promise.value)

C30_ApiNeverRejects ==
  [][/\ SettledWell(home'.parse)
     /\ SettledWell(home'.health)
     /\ (handleParse /\ ~Blank(home.filePath)) =>
          home'.loading /\ home'.parse.phase = "pending"
     /\ handleParseResumes =>
          /\ ~home'.loading
          /\ IsParseResult(home'.result) \/ IsErrorResult(home'.result)
     /\ home'.parse.phase = "idle" => ~home'.loading
     /\ (handleParse /\ Blank(home.filePath)) =>
          /\ [home' EXCEPT !.event = ""] = [home EXCEPT !.event = ""]
          /\ UNCHANGED <<props, selectedNode, layout, searchTerm,
                         showFunctions, showClasses, showMethods,
                         showRelationships, cyRef, liveInstances,
                         calls>>]_vars

\* fetch rejected during a parse: handleParse has ended with loading false
\* and the {error} value of parsePythonFile as the result
C30_Witness ==
  /\ home # NotHome
  /\ home.event = "handleParse.finally"
  /\ ~home.loading
  /\ home.result = [error |-> "Failed to fetch"]

====
